---- MODULE Spec2Model ----
(***************************************************************************)
(* Model of the distributed bootstrap (ab/gpt/dist/DistEnv.py) and of the  *)
(* rank-coordinated generation loop (ab/gpt/infer/DPGenerator.py).         *)
(*                                                                         *)
(* One operating-system process per pid.  Pid 0 is the process the user    *)
(* starts by hand; pids 1..MaxWorld are workers, created either by an      *)
(* external launcher (torchrun/deepspeed) or by the local spawner.         *)
(* Each process runs the Python code sequentially; processes interact      *)
(* only through the collectives of torch.distributed (group formation,     *)
(* broadcast, broadcast_object_list, the sharded generate, barrier) and    *)
(* through the shared file system.                                         *)
(***************************************************************************)
EXTENDS Integers, Sequences, FiniteSets, TLC

\* ---------------------------------------------------------------- bounds
MaxWorld == 2
MaxTasks == 3
MaxCalls == 2

\* ------------------------------------------------------ program constants
DefaultTimeout == 1800

\* ------------------------------------------------------------- optionals
None == <<>>
Some(v) == <<v>>
Val(o) == o[1]

\* ------------------------------------------------------------ processes
Parent == 0
Pids == 0..MaxWorld
Workers == 1..MaxWorld

\* ------------------------------------------- environment (os.environ)
\* An environment is a function from the names that are set to strings.
Signals == {"RANK", "WORLD_SIZE", "LOCAL_RANK"}
Digits == <<"0", "1", "2", "3", "4", "5", "6", "7", "8", "9">>
EmptyEnv == [k \in {} |-> ""]

\* str(i) for the small non-negative integers the model uses
StrOf(i) == Digits[i + 1]
\* int(s) succeeds exactly on the strings that spell an integer
IsInt(s) == \E i \in DOMAIN Digits : Digits[i] = s
IntOf(s) == (CHOOSE i \in DOMAIN Digits : Digits[i] = s) - 1
\* os.environ.get(k, d)
EnvGet(e, k, d) == IF k \in DOMAIN e THEN e[k] ELSE d
\* os.environ[k] = v
EnvSet(e, k, v) == [x \in (DOMAIN e) \cup {k} |-> IF x = k THEN v ELSE e[x]]
\* any(k in os.environ for k in ("RANK", "WORLD_SIZE", "LOCAL_RANK"))
HasSignal(e) == \E k \in Signals : k \in DOMAIN e

\* the function with domain {k1, k2, k3} (names may repeat)
Env3(k1, v1, k2, v2, k3, v3) ==
  [k \in {k1, k2, k3} |-> IF k = k1 THEN v1 ELSE IF k = k2 THEN v2 ELSE v3]
Env1(k, v) == Env3(k, v, k, v, k, v)
Env2(k1, v1, k2, v2) == Env3(k1, v1, k2, v2, k2, v2)
\* what the shell of a hand-started process may hold: no signal (with or
\* without a master address of its own), a full set, partial sets, and
\* signals that do not spell an integer ("x")
UserEnvs ==
  { EmptyEnv,
    Env1("MASTER_ADDR", "10.0.0.1"),
    Env3("RANK", "0", "LOCAL_RANK", "0", "WORLD_SIZE", "1"),
    Env3("RANK", "0", "LOCAL_RANK", "0", "WORLD_SIZE", "2"),
    Env1("RANK", "1"),
    Env1("LOCAL_RANK", "1"),
    Env1("WORLD_SIZE", "2"),
    Env1("RANK", "x"),
    Env1("LOCAL_RANK", "x"),
    Env1("WORLD_SIZE", "x"),
    Env2("RANK", "1", "LOCAL_RANK", "x") }
\* os.environ.setdefault(k, v)
EnvSetDefault(e, k, v) == IF k \in DOMAIN e THEN e ELSE EnvSet(e, k, v)
\* the environment an external launcher gives rank r of n
LauncherEnv(r, n) ==
  [k \in Signals \cup {"MASTER_ADDR", "MASTER_PORT"} |->
     CASE k = "WORLD_SIZE" -> StrOf(n)
       [] k = "MASTER_ADDR" -> "10.0.0.1"
       [] k = "MASTER_PORT" -> "29400"
       [] OTHER -> StrOf(r)]

\* ------------------------------------------------------------ wall clock
\* int(time.time()) as (bits 31 and above, low 31 bits); the mask
\* 0x7FFFFFFF keeps the low 31 bits.
Clock == { [hi |-> 0, lo |-> 5], [hi |-> 1, lo |-> 6] }
Mask31(t) == t.lo

\* -------------------------------------------------------- driver calls
Backends == {"nccl", "gloo"}
InitArgs ==
  { [backend |-> "nccl", timeout |-> DefaultTimeout, seed |-> None],
    [backend |-> "gloo", timeout |-> 60, seed |-> Some(42)] }
Call(op, backend, timeout, seed, save, entry, nprocs) ==
  [op |-> op, backend |-> backend, timeout |-> timeout, seed |-> seed,
   save |-> save, entry |-> entry, nprocs |-> nprocs]
InitCalls ==
  { Call("init", a.backend, a.timeout, a.seed, FALSE, "-", None) : a \in InitArgs }
DestroyCalls == { Call("destroy", "nccl", DefaultTimeout, None, FALSE, "-", None) }
WorkerCalls ==
  { Call("worker", "nccl", DefaultTimeout, None, sv, "-", None) : sv \in BOOLEAN }
SpawnCalls ==
  { Call("spawn", "nccl", DefaultTimeout, None, sv, "worker", n) :
      sv \in BOOLEAN, n \in {None, Some(1)} }
  \cup
  { Call("spawn", "nccl", DefaultTimeout, None, FALSE, "run", None) }
Calls == InitCalls \cup DestroyCalls \cup WorkerCalls \cup SpawnCalls
NoCall == Call("none", "nccl", DefaultTimeout, None, FALSE, "-", None)
\* a call every driver has started: only its kind is kept
Done(c) ==
  [NoCall EXCEPT !.op = IF c.op \in {"worker", "ranw"} THEN "ranw"
                        ELSE IF c.op \in {"spawn", "ran"} THEN "ran" ELSE "did"]
\* a further call of _worker in the same process, with a seed of its own
AgainCalls(save) == { Call("worker", "nccl", DefaultTimeout, Some(42), save, "-", None) }

VARIABLES
  alive,        \* pid -> the process exists
  env,          \* pid -> os.environ
  inited,       \* pid -> DistEnv._inited
  rank,         \* pid -> DistEnv._rank
  local_rank,   \* pid -> DistEnv._local_rank
  world_size,   \* pid -> DistEnv._world_size
  device,       \* pid -> None | Some(cuda device index bound)
  rng,          \* pid -> None | Some(seed given to torch.manual_seed)
  pg,           \* pid -> process group: [st, epoch, backend, timeout, hint]
  coll,         \* pid -> [log: collectives entered in this group, pend: in one now]
  box,          \* payload of the broadcasts: [seed, objs]
  pc,           \* pid -> position in the code
  stack,        \* pid -> return positions
  arg,          \* pid -> the driver call being executed
  loc,          \* pid -> local variables of the running functions
  exc,          \* pid -> exception that ended the last driver call
  script,       \* the driver program: the calls made so far
  ip,           \* pid -> number of driver calls started
  dirs,         \* indices i whose artifact directory B<i> exists
  ilog,         \* pid -> events of DistEnv.init/destroy, in program order
  hist,         \* pid -> record of the current _worker run and spawn call
  host          \* what the installed torch answers, once asked: [cuda, api]

vars == << alive, env, inited, rank, local_rank, world_size, device, rng, pg,
           coll, box, pc, stack, arg, loc, exc, script, ip, dirs, ilog, hist,
           host >>

\* the answers still possible for a question to the installed torch
Answers(known) == IF known = None THEN BOOLEAN ELSE {Val(known)}

\* ------------------------------------------------------- fresh process
NoGroup == [st |-> "none", epoch |-> 0, backend |-> "-", timeout |-> 0, hint |-> FALSE]
NoColl == [log |-> <<>>, pend |-> FALSE]
FreshLoc ==
  [base |-> 0, attempt |-> 0, prompts |-> None, idx |-> 0, lrank |-> 0,
   entry |-> "-", nprocs |-> None]
FreshHist ==
  [run |-> 0, gen |-> <<>>, out |-> <<>>, end |-> "none", built |-> None,
   sp |-> <<>>, entry |-> None, iseed |-> None, prev |-> "none", used |-> 0,
   made |-> {}, last |-> [gen |-> <<>>, built |-> None]]

\* ------------------------------------------------------------- Init
\* Either the user starts one process (pid 0) with whatever identity
\* signals the shell holds, or an external launcher starts n workers with
\* consistent signals.
StartStandalone(e) ==
  /\ alive = [p \in Pids |-> p = Parent]
  /\ env = [p \in Pids |-> IF p = Parent THEN e ELSE EmptyEnv]
StartLaunched(n) ==
  /\ alive = [p \in Pids |-> p \in 1..n]
  /\ env = [p \in Pids |-> IF p \in 1..n THEN LauncherEnv(p - 1, n) ELSE EmptyEnv]

Init ==
  /\ \/ \E e \in UserEnvs : StartStandalone(e)
     \/ \E n \in Workers : StartLaunched(n)
  /\ inited = [p \in Pids |-> FALSE]
  /\ rank = [p \in Pids |-> 0]
  /\ local_rank = [p \in Pids |-> 0]
  /\ world_size = [p \in Pids |-> 1]
  /\ device = [p \in Pids |-> None]
  /\ rng = [p \in Pids |-> None]
  /\ pg = [p \in Pids |-> NoGroup]
  /\ coll = [p \in Pids |-> NoColl]
  /\ box = [seed |-> 0, objs |-> None]
  /\ pc = [p \in Pids |-> "top"]
  /\ stack = [p \in Pids |-> <<>>]
  /\ arg = [p \in Pids |-> NoCall]
  /\ loc = [p \in Pids |-> FreshLoc]
  /\ exc = [p \in Pids |-> "none"]
  /\ script = <<>>
  /\ ip = [p \in Pids |-> 0]
  /\ dirs = {}
  /\ ilog = [p \in Pids |-> <<>>]
  /\ hist = [p \in Pids |-> FreshHist]
  /\ host = [cuda |-> None, api |-> None]

\* ------------------------------------------------ control-flow helpers
\* `return`: continue at the caller's position
RetPc(p) == Head(stack[p])
RetStack(p) == Tail(stack[p])
\* an uncaught exception unwinds to the bottom frame: the driver of a
\* started process, or the exit of a spawned one
BasePc(p) == stack[p][Len(stack[p])]
RunEnd(h, how) == IF h.end = "running" THEN [h EXCEPT !.end = how] ELSE h

\* ------------------------------------------------- collectives (torch.distributed)
\* The members of p's group are the processes that formed the same group
\* (same world size, same formation round).  The n-th collective of a
\* member completes once every rank of the group has entered its n-th
\* collective and it is of the same kind; a collective that raised on a
\* rank never completes on its peers.
SameGroup(p, q) ==
  /\ alive[q]
  /\ pg[q].st = "up"
  /\ pg[q].epoch = pg[p].epoch
  /\ world_size[q] = world_size[p]
Arrived(p, q) ==
  LET n == Len(coll[p].log) IN
  /\ Len(coll[q].log) >= n
  /\ coll[q].log[n] = coll[p].log[n]
CanComplete(p) ==
  \A r \in 0..(world_size[p] - 1) :
    \E q \in Pids : SameGroup(p, q) /\ rank[q] = r /\ Arrived(p, q)
Enter(c, kind) == [log |-> Append(c.log, kind), pend |-> TRUE]
Leave(c) == [c EXCEPT !.pend = FALSE]
Fail(c) == [log |-> [c.log EXCEPT ![Len(c.log)] = "failed"], pend |-> FALSE]
\* env:// rendezvous of init_process_group: every rank 0..world_size-1 has
\* joined this formation round
Rendezvous(p) ==
  \A r \in 0..(world_size[p] - 1) :
    \E q \in Pids :
      /\ alive[q]
      /\ pg[q].st \in {"forming", "up"}
      /\ pg[q].epoch = pg[p].epoch
      /\ world_size[q] = world_size[p]
      /\ rank[q] = r

\* ------------------------------------------------------------ the driver
\* The processes that were started (not spawned) run the same program: a
\* sequence of calls into DistEnv / DPGenerator.  The program is chosen
\* call by call by the first process that gets there.  A program is either
\* one call of spawn_if_needed (as in DPGenerator.run), or calls of _worker
\* (each after the normal return of the one before), or calls of
\* DistEnv.init / destroy; up to MaxCalls calls in all.
Drivers == IF alive[Parent] THEN {Parent} ELSE { q \in Pids : alive[q] }
Least(S) == CHOOSE x \in S : \A y \in S : x <= y
NextCalls(p) ==
  IF ip[p] = 0
  THEN (IF script = <<>> THEN Calls ELSE { script[1] })
  ELSE IF script[1].op \in {"spawn", "ran"} THEN {}
  ELSE IF script[1].op \in {"worker", "ranw"}
       THEN IF exc[p] = "none" /\ hist[p].end = "returned"
            THEN (IF ip[p] < Len(script) THEN { script[ip[p] + 1] }
                  ELSE AgainCalls(arg[p].save))
            ELSE {}
  ELSE IF ip[p] < Len(script) THEN { script[ip[p] + 1] }
       ELSE InitCalls \cup DestroyCalls

DriverCall(p) ==
  /\ p \in Drivers
  /\ pc[p] = "top"
  /\ ip[p] < MaxCalls
  /\ \E c \in NextCalls(p) :
       /\ LET full == IF ip[p] < Len(script) THEN script ELSE Append(script, c)
              m == Least({ IF q = p THEN ip[q] + 1 ELSE ip[q] : q \in Drivers })
          IN script' = [i \in DOMAIN full |-> IF i <= m THEN Done(full[i]) ELSE full[i]]
       /\ arg' = [arg EXCEPT ![p] = c]
       /\ pc' = [pc EXCEPT ![p] = c.op]
       /\ loc' = [loc EXCEPT ![p] = [FreshLoc EXCEPT !.entry = c.entry, !.nprocs = c.nprocs]]
  /\ ip' = [ip EXCEPT ![p] = @ + 1]
  /\ stack' = [stack EXCEPT ![p] = <<"top">>]
  /\ exc' = [exc EXCEPT ![p] = "none"]
  /\ host' = host
  /\ UNCHANGED << alive, env, inited, rank, local_rank, world_size, device, rng,
                  pg, coll, box, dirs, ilog, hist >>

\* init without the early return: the body runs on every call
AlreadyInited_never(p) == FALSE
\* ============================================================ DistEnv
\* `if DistEnv._inited: return`
AlreadyInited(p) == inited[p]
\* init forming a group whatever the world size
NeedGroup_always(p, ws) == pg[p].st # "up"
\* `if DistEnv._world_size > 1 and not dist.is_initialized()`
NeedGroup(p, ws) == ws > 1 /\ pg[p].st # "up"
\* init with the group-formation call ahead of the device binding
BindThenForm_reversed(bindEv, formEv) == formEv \o bindEv
\* the order of the device binding and of the group-formation call in init:
\* the events an execution appends after identity resolution
BindThenForm(bindEv, formEv) == bindEv \o formEv
\* set_seed adding one more than the rank
DerivedSeed_plusOne(seed, r) == seed + r + 1
\* set_seed: `rs = int(seed) + DistEnv.rank()`
DerivedSeed(seed, r) == seed + r
\* init without the broadcast: every rank keeps the base it generated
ReceivedSeed_local(base) == base
\* `dist.broadcast(t, src=0); seed = int(t.item())`
ReceivedSeed(base) == box.seed
\* DistEnv.is_main
IsMain(p) == rank[p] = 0

\* set_seed(seed) followed by `DistEnv._inited = True` and the return
SeedAndFinish(p, seed) ==
  /\ rng' = [rng EXCEPT ![p] = Some(DerivedSeed(seed, rank[p]))]
  /\ inited' = [inited EXCEPT ![p] = TRUE]
  /\ loc' = [loc EXCEPT ![p].base = 0, ![p].attempt = 0]
  /\ pc' = [pc EXCEPT ![p] = RetPc(p)]
  /\ stack' = [stack EXCEPT ![p] = RetStack(p)]

\* init, from its entry to the first blocking call: identity resolution,
\* master endpoint defaults, device binding, entry into group formation
DoInit(p) ==
  /\ alive[p]
  /\ pc[p] = "init"
  /\ IF AlreadyInited(p)
     THEN /\ pc' = [pc EXCEPT ![p] = RetPc(p)]
          /\ stack' = [stack EXCEPT ![p] = RetStack(p)]
          /\ UNCHANGED << env, rank, local_rank, world_size, device, pg, exc, hist, ilog,
                          host, loc >>
     ELSE LET rs == EnvGet(env[p], "RANK", "0")
              ls == EnvGet(env[p], "LOCAL_RANK", "0")
              ws == EnvGet(env[p], "WORLD_SIZE", "1")
              ok == IsInt(rs) /\ IsInt(ls) /\ IsInt(ws)
          IN
          /\ rank' = [rank EXCEPT ![p] = IF IsInt(rs) THEN IntOf(rs) ELSE @]
          /\ local_rank' = [local_rank EXCEPT ![p] =
                              IF IsInt(rs) /\ IsInt(ls) THEN IntOf(ls) ELSE @]
          /\ world_size' = [world_size EXCEPT ![p] = IF ok THEN IntOf(ws) ELSE @]
          /\ IF ~ok
             THEN \* int() raises ValueError
                  /\ pc' = [pc EXCEPT ![p] = BasePc(p)]
                  /\ stack' = [stack EXCEPT ![p] = <<>>]
                  /\ exc' = [exc EXCEPT ![p] = "ValueError"]
                  /\ hist' = [hist EXCEPT ![p] = RunEnd(@, "raised")]
                  /\ ilog' = [ilog EXCEPT ![p] = << <<"resolve_failed">> >>]
                  /\ UNCHANGED << env, device, pg, host, loc >>
             ELSE \E cuda \in Answers(host.cuda) :
                  \E hasParam \in IF NeedGroup(p, IntOf(ws)) THEN Answers(host.api) ELSE {FALSE} :
                  LET need == NeedGroup(p, IntOf(ws))
                      bindEv == IF cuda THEN << <<"bind", IntOf(ls)>> >> ELSE << <<"nocuda">> >>
                      formEv == IF need
                                THEN << <<"form", hasParam, pg[p].st = "up", IntOf(ws)>> >>
                                ELSE <<>>
                  IN
                  /\ env' = [env EXCEPT ![p] =
                       EnvSetDefault(EnvSetDefault(@, "MASTER_ADDR", "127.0.0.1"),
                                     "MASTER_PORT", "29500")]
                  /\ device' = [device EXCEPT ![p] = IF cuda THEN Some(IntOf(ls)) ELSE @]
                  /\ host' = [cuda |-> Some(cuda),
                              api |-> IF need THEN Some(hasParam) ELSE host.api]
                  /\ ilog' = [ilog EXCEPT ![p] =
                       << <<"resolve", arg[p].seed>> >> \o BindThenForm(bindEv, formEv)]
                  /\ IF need
                     THEN /\ pg' = [pg EXCEPT ![p] =
                                [st |-> "forming", epoch |-> @.epoch + 1,
                                 backend |-> arg[p].backend, timeout |-> arg[p].timeout,
                                 hint |-> hasParam]]
                          /\ pc' = [pc EXCEPT ![p] = "i_form"]
                          /\ loc' = [loc EXCEPT ![p].attempt = 1]
                     ELSE /\ pg' = pg
                          /\ pc' = [pc EXCEPT ![p] = "i_seed"]
                          /\ loc' = loc
                  /\ hist' = [hist EXCEPT ![p].iseed = arg[p].seed]
                  /\ UNCHANGED << stack, exc >>
  /\ UNCHANGED << alive, inited, rng, coll, box, arg, script, ip, dirs >>

\* init_process_group(**kwargs) returns: the group is up
InitFormed(p) ==
  /\ alive[p]
  /\ pc[p] = "i_form"
  /\ Rendezvous(p)
  /\ pg' = [pg EXCEPT ![p].st = "up", ![p].hint = FALSE]
  /\ coll' = [coll EXCEPT ![p] = NoColl]
  /\ pc' = [pc EXCEPT ![p] = "i_seed"]
  /\ ilog' = [ilog EXCEPT ![p] = Append(@, <<"formed">>)]
  /\ host' = host
  /\ UNCHANGED << alive, env, inited, rank, local_rank, world_size, device, rng,
                  box, stack, arg, loc, exc, script, ip, dirs, hist >>

\* init catching the TypeError of the repeated call as well
RetryAllowed_twice(attempt) == attempt <= 2
\* the call of init_process_group inside the try block (attempt 1) is the
\* only one whose TypeError is caught
RetryAllowed(attempt) == attempt = 1
\* `except TypeError`: the first call raised TypeError (the signature does
\* not take what it was given); `kwargs.pop("device_id", None)` and the
\* call is repeated
InitFormRetry(p) ==
  /\ alive[p]
  /\ pc[p] = "i_form"
  /\ RetryAllowed(loc[p].attempt)
  /\ pg' = [pg EXCEPT ![p].hint = FALSE]
  /\ loc' = [loc EXCEPT ![p].attempt = @ + 1]
  /\ ilog' = [ilog EXCEPT ![p] =
                @ \o << <<"type_error">>, <<"form", FALSE, FALSE, world_size[p]>> >>]
  /\ host' = host
  /\ UNCHANGED << alive, env, inited, rank, local_rank, world_size, device, rng,
                  coll, box, pc, stack, arg, exc, script, ip, dirs, hist >>

\* init_process_group raises anything else (backend mismatch, rendezvous
\* failure, timeout), or raises again in the retry: the error leaves init
InitFormFail(p) ==
  /\ alive[p]
  /\ pc[p] = "i_form"
  /\ pg' = [pg EXCEPT ![p] = [NoGroup EXCEPT !.epoch = pg[p].epoch]]
  /\ pc' = [pc EXCEPT ![p] = BasePc(p)]
  /\ stack' = [stack EXCEPT ![p] = <<>>]
  /\ exc' = [exc EXCEPT ![p] = "GroupError"]
  /\ hist' = [hist EXCEPT ![p] = RunEnd(@, "raised")]
  /\ ilog' = [ilog EXCEPT ![p] = Append(@, <<"form_failed">>)]
  /\ host' = host
  /\ UNCHANGED << alive, env, inited, rank, local_rank, world_size, device, rng,
                  coll, box, arg, loc, script, ip, dirs >>

\* init from `if seed is None` to the broadcast, or to the end
InitSeed(p) ==
  /\ alive[p]
  /\ pc[p] = "i_seed"
  /\ IF arg[p].seed = None
     THEN \E t \in Clock :
          LET base == Mask31(t) IN
          IF pg[p].st = "up"
          THEN /\ coll' = [coll EXCEPT ![p] = Enter(@, "bcast")]
               /\ box' = IF rank[p] = 0 THEN [box EXCEPT !.seed = base] ELSE box
               /\ loc' = [loc EXCEPT ![p].base = base]
               /\ pc' = [pc EXCEPT ![p] = "i_bcast"]
               /\ UNCHANGED << rng, inited, stack, ilog >>
          ELSE /\ SeedAndFinish(p, base)
               /\ ilog' = [ilog EXCEPT ![p] = <<>>]
               /\ UNCHANGED << coll, box >>
     ELSE /\ SeedAndFinish(p, Val(arg[p].seed))
          /\ ilog' = [ilog EXCEPT ![p] = <<>>]
          /\ UNCHANGED << coll, box >>
  /\ host' = host
  /\ UNCHANGED << alive, env, rank, local_rank, world_size, device, pg, arg, exc,
                  script, ip, dirs, hist >>

\* the broadcast returns on this rank: the tensor holds rank 0's value
InitBcastDone(p) ==
  /\ alive[p]
  /\ pc[p] = "i_bcast"
  /\ CanComplete(p)
  /\ coll' = [coll EXCEPT ![p] = Leave(@)]
  /\ SeedAndFinish(p, ReceivedSeed(loc[p].base))
  /\ ilog' = [ilog EXCEPT ![p] = <<>>]
  /\ host' = host
  /\ UNCHANGED << alive, env, rank, local_rank, world_size, device, pg, box, arg,
                  exc, script, ip, dirs, hist >>

\* the broadcast raises: fatal, the group stays up and _inited stays false
InitBcastFail(p) ==
  /\ alive[p]
  /\ pc[p] = "i_bcast"
  /\ coll' = [coll EXCEPT ![p] = Fail(@)]
  /\ pc' = [pc EXCEPT ![p] = BasePc(p)]
  /\ stack' = [stack EXCEPT ![p] = <<>>]
  /\ exc' = [exc EXCEPT ![p] = "BroadcastError"]
  /\ hist' = [hist EXCEPT ![p] = RunEnd(@, "raised")]
  /\ ilog' = [ilog EXCEPT ![p] = Append(@, <<"bcast_failed">>)]
  /\ host' = host
  /\ UNCHANGED << alive, env, inited, rank, local_rank, world_size, device, rng,
                  pg, box, arg, loc, script, ip, dirs >>

\* destroy, to the barrier or (no group) to the end
DoDestroy(p) ==
  /\ alive[p]
  /\ pc[p] = "destroy"
  /\ IF pg[p].st = "up"
     THEN /\ coll' = [coll EXCEPT ![p] = Enter(@, "barrier")]
          /\ pc' = [pc EXCEPT ![p] = "d_bar"]
          /\ ilog' = [ilog EXCEPT ![p] = @ \o << <<"destroy", TRUE>>, <<"barrier">> >>]
          /\ UNCHANGED << inited, stack >>
     ELSE /\ inited' = [inited EXCEPT ![p] = FALSE]
          /\ pc' = [pc EXCEPT ![p] = RetPc(p)]
          /\ stack' = [stack EXCEPT ![p] = RetStack(p)]
          /\ ilog' = [ilog EXCEPT ![p] = @ \o << <<"destroy", FALSE>>, <<"reset">> >>]
          /\ coll' = coll
  /\ host' = host
  /\ UNCHANGED << alive, env, rank, local_rank, world_size, device, rng, pg, box,
                  arg, loc, exc, script, ip, dirs, hist >>

\* destroy without the try/except around its barrier
BarrierFailureInDestroy_raise == "raise"
\* what destroy does with an exception of its barrier: "swallow" or "raise"
BarrierFailureInDestroy == "swallow"

\* destroy_process_group() and `DistEnv._inited = False`
Teardown(p, events) ==
  /\ pg' = [pg EXCEPT ![p] = [NoGroup EXCEPT !.epoch = pg[p].epoch]]
  /\ coll' = [coll EXCEPT ![p] = NoColl]
  /\ inited' = [inited EXCEPT ![p] = FALSE]
  /\ pc' = [pc EXCEPT ![p] = RetPc(p)]
  /\ stack' = [stack EXCEPT ![p] = RetStack(p)]
  /\ exc' = exc
  /\ ilog' = [ilog EXCEPT ![p] = @ \o events \o << <<"teardown">>, <<"reset">> >>]

\* the barrier of destroy returns
DestroyBarrierDone(p) ==
  /\ alive[p]
  /\ pc[p] = "d_bar"
  /\ CanComplete(p)
  /\ Teardown(p, << <<"barrier_ok">> >>)
  /\ host' = host
  /\ UNCHANGED << alive, env, rank, local_rank, world_size, device, rng, box,
                  arg, loc, script, ip, dirs, hist >>

\* the barrier of destroy raises: `except Exception: pass`
DestroyBarrierRaise(p) ==
  /\ alive[p]
  /\ pc[p] = "d_bar"
  /\ IF BarrierFailureInDestroy = "swallow"
     THEN Teardown(p, << <<"barrier_raised">> >>)
     ELSE /\ coll' = [coll EXCEPT ![p] = Fail(@)]
          /\ pc' = [pc EXCEPT ![p] = BasePc(p)]
          /\ stack' = [stack EXCEPT ![p] = <<>>]
          /\ exc' = [exc EXCEPT ![p] = "BarrierError"]
          /\ ilog' = [ilog EXCEPT ![p] = Append(@, <<"barrier_raised">>)]
          /\ UNCHANGED << pg, inited >>
  /\ host' = host
  /\ UNCHANGED << alive, env, rank, local_rank, world_size, device, rng, box,
                  arg, loc, script, ip, dirs, hist >>

\* ======================================================== DPGenerator
\* _build_prompts: one task per configured key; the sampled rows depend on
\* the draw of the data source.  A task is (prompt text, source record).
Draws == {1}
BuildPrompts(k, d) == [i \in 1..k |-> [text |-> <<"prompt", i, d>>, row |-> d]]
\* `if DistEnv.is_main(): prompts = _build_prompts(...) else: prompts = None`
BuildsPrompts(p) == IsMain(p)
\* _worker without broadcast_object_list: every rank keeps its own value
ReceivedPrompts_mine(mine) == mine
\* `dist.broadcast_object_list(obj, src=0); prompts = obj[0]`
ReceivedPrompts(mine) == box.objs
\* `if DistEnv.is_main():` in the loop body
PostGate(p) == IsMain(p)
\* the parse check looking at the code only
ParseFailed_codeOnly(code, hp) == ~code
\* `if not code or not hp`
ParseFailed(code, hp) == ~code \/ ~hp
\* _worker without the final barrier
BarrierBlocks_never(p) == FALSE
\* DistEnv.barrier: `if dist.is_initialized(): dist.barrier(**kwargs)`
BarrierBlocks(p) == pg[p].st = "up"

\* _worker ending with DistEnv.destroy()
TearsDownAtEnd_yes == TRUE
\* `#DistEnv.destroy()`: the call at the end of _worker is commented out
TearsDownAtEnd == FALSE
\* the end of _worker after its barrier; c is the collective state of p
EndOfWorker(p, c) ==
  IF TearsDownAtEnd
  THEN /\ inited' = [inited EXCEPT ![p] = FALSE]
       /\ pg' = [pg EXCEPT ![p] = [NoGroup EXCEPT !.epoch = pg[p].epoch]]
       /\ coll' = [coll EXCEPT ![p] = NoColl]
  ELSE /\ inited' = inited
       /\ pg' = pg
       /\ coll' = [coll EXCEPT ![p] = c]

\* _worker: `DistEnv.init(seed=seed)`
DoWorker(p) ==
  /\ alive[p]
  /\ pc[p] = "worker"
  /\ pc' = [pc EXCEPT ![p] = "init"]
  /\ stack' = [stack EXCEPT ![p] = <<"w_prompts">> \o @]
  /\ hist' = [hist EXCEPT ![p] =
                [@ EXCEPT !.run = @ + 1, !.gen = <<>>, !.out = <<>>,
                          !.end = "running", !.built = None, !.prev = hist[p].end,
                          !.made = {},
                          !.last = [gen |-> hist[p].gen, built |-> hist[p].built]]]
  /\ host' = host
  /\ UNCHANGED << alive, env, inited, rank, local_rank, world_size, device, rng,
                  pg, coll, box, arg, loc, exc, script, ip, dirs, ilog >>

\* _worker from `world_size = DistEnv.world_size()` to the broadcast of the
\* task list, or (one process) to the loop
WorkerPrompts(p) ==
  /\ alive[p]
  /\ pc[p] = "w_prompts"
  /\ \E k \in 0..(MaxTasks - hist[p].used), d \in Draws :
       LET prompts == IF BuildsPrompts(p) THEN Some(BuildPrompts(k, d)) ELSE None IN
       /\ hist' = [hist EXCEPT ![p] =
                     IF prompts = None
                     THEN IF world_size[p] > 1 THEN @ ELSE RunEnd(@, "raised")
                     ELSE [@ EXCEPT !.built = prompts, !.used = @ + k]]
       /\ IF world_size[p] > 1
          THEN /\ coll' = [coll EXCEPT ![p] = Enter(@, "objs")]
               /\ box' = IF rank[p] = 0 THEN [box EXCEPT !.objs = prompts] ELSE box
               /\ loc' = [loc EXCEPT ![p].prompts = prompts]
               /\ pc' = [pc EXCEPT ![p] = "w_obj"]
               /\ UNCHANGED << stack, exc >>
          ELSE IF prompts = None
               THEN \* `assert prompts is not None`
                    /\ pc' = [pc EXCEPT ![p] = BasePc(p)]
                    /\ stack' = [stack EXCEPT ![p] = <<>>]
                    /\ exc' = [exc EXCEPT ![p] = "AssertionError"]
                    /\ UNCHANGED << coll, box, loc >>
               ELSE /\ loc' = [loc EXCEPT ![p].prompts = prompts, ![p].idx = 0]
                    /\ pc' = [pc EXCEPT ![p] = "w_loop"]
                    /\ UNCHANGED << coll, box, stack, exc >>
  /\ host' = host
  /\ UNCHANGED << alive, env, inited, rank, local_rank, world_size, device, rng,
                  pg, arg, script, ip, dirs, ilog >>

\* broadcast_object_list returns on this rank
WorkerObjDone(p) ==
  /\ alive[p]
  /\ pc[p] = "w_obj"
  /\ CanComplete(p)
  /\ coll' = [coll EXCEPT ![p] = Leave(@)]
  /\ loc' = [loc EXCEPT ![p].prompts = ReceivedPrompts(@), ![p].idx = 0]
  /\ pc' = [pc EXCEPT ![p] = "w_loop"]
  /\ host' = host
  /\ UNCHANGED << alive, env, inited, rank, local_rank, world_size, device, rng,
                  pg, box, stack, arg, exc, script, ip, dirs, ilog, hist >>

\* loop head: the next task enters model.generate (a collective of the
\* sharded model when the group is up); after the last task, DistEnv.barrier()
WorkerLoop(p) ==
  /\ alive[p]
  /\ pc[p] = "w_loop"
  /\ IF loc[p].prompts = None
     THEN \* enumerate(None) raises TypeError
          /\ pc' = [pc EXCEPT ![p] = BasePc(p)]
          /\ stack' = [stack EXCEPT ![p] = <<>>]
          /\ exc' = [exc EXCEPT ![p] = "TypeError"]
          /\ hist' = [hist EXCEPT ![p] = RunEnd(@, "raised")]
          /\ UNCHANGED << coll, inited, pg >>
     ELSE
     IF loc[p].idx < Len(Val(loc[p].prompts))
     THEN /\ coll' = [coll EXCEPT ![p] = IF pg[p].st = "up" THEN Enter(@, "gen") ELSE @]
          /\ pc' = [pc EXCEPT ![p] = "w_gen"]
          /\ UNCHANGED << stack, hist, exc, inited, pg >>
     ELSE IF BarrierBlocks(p)
          THEN /\ coll' = [coll EXCEPT ![p] = Enter(@, "barrier")]
               /\ pc' = [pc EXCEPT ![p] = "w_bar"]
               /\ UNCHANGED << stack, hist, exc, inited, pg >>
          ELSE /\ pc' = [pc EXCEPT ![p] = RetPc(p)]
               /\ stack' = [stack EXCEPT ![p] = RetStack(p)]
               /\ hist' = [hist EXCEPT ![p] = RunEnd(@, "returned")]
               /\ EndOfWorker(p, coll[p])
               /\ exc' = exc
  /\ host' = host
  /\ UNCHANGED << alive, env, rank, local_rank, world_size, device, rng,
                  box, arg, loc, script, ip, dirs, ilog >>

\* model.generate returns on this rank
WorkerGenDone(p) ==
  /\ alive[p]
  /\ pc[p] = "w_gen"
  /\ coll[p].pend => CanComplete(p)
  /\ coll' = [coll EXCEPT ![p] = Leave(@)]
  /\ hist' = [hist EXCEPT ![p].gen = Append(@, loc[p].idx)]
  /\ IF PostGate(p)
     THEN /\ pc' = [pc EXCEPT ![p] = "w_post"]
          /\ loc' = loc
     ELSE /\ pc' = [pc EXCEPT ![p] = "w_loop"]
          /\ loc' = [loc EXCEPT ![p].idx = @ + 1]
  /\ host' = host
  /\ UNCHANGED << alive, env, inited, rank, local_rank, world_size, device, rng,
                  pg, box, stack, arg, exc, script, ip, dirs, ilog >>

\* create_file(model_dir, new_out_file, full_out), only with save_llm_output:
\* makedirs, then the write; it stands outside the try block
RawOutcomes(save, i) ==
  IF save
  THEN {"ok", "write_fail"} \cup (IF i \in dirs THEN {} ELSE {"mkdir_fail"})
  ELSE {"skip"}
\* the try block: json.loads, model_dir.mkdir, the writes
TryOutcomes == {"ok", "bad_hp", "write_fail"}

Outcome(i, parsed, res, why) == [idx |-> i, parsed |-> parsed, res |-> res, why |-> why]

\* the designated rank's part of one iteration: decode, parse, persist
WorkerPost(p) ==
  /\ alive[p]
  /\ pc[p] = "w_post"
  /\ LET i == loc[p].idx IN
     \E code \in BOOLEAN, hp \in BOOLEAN :
       IF ParseFailed(code, hp)
       THEN \* warning, `continue`
            /\ dirs' = dirs
            /\ hist' = [hist EXCEPT ![p].out = Append(@, Outcome(i, code /\ hp, "noparse", "-"))]
            /\ loc' = [loc EXCEPT ![p].idx = @ + 1]
            /\ pc' = [pc EXCEPT ![p] = "w_loop"]
            /\ UNCHANGED << stack, exc >>
       ELSE \E raw \in RawOutcomes(arg[p].save, i) :
            IF raw \in {"mkdir_fail", "write_fail"}
            THEN \* the I/O error leaves the loop and _worker
                 /\ dirs' = IF raw = "write_fail" THEN dirs \cup {i} ELSE dirs
                 /\ hist' = [hist EXCEPT ![p] =
                               RunEnd([@ EXCEPT !.out = Append(@, Outcome(i, code /\ hp, "escaped", raw)),
                                                !.made = @ \cup (dirs' \ dirs)],
                                      "raised")]
                 /\ pc' = [pc EXCEPT ![p] = BasePc(p)]
                 /\ stack' = [stack EXCEPT ![p] = <<>>]
                 /\ exc' = [exc EXCEPT ![p] = "IOError"]
                 /\ loc' = loc
            ELSE LET has == (raw = "ok") \/ i \in dirs IN
                 \E tr \in TryOutcomes :
                 /\ dirs' = IF has \/ tr \in {"ok", "write_fail"} THEN dirs \cup {i} ELSE dirs
                 /\ hist' = [hist EXCEPT ![p].out =
                               Append(@, IF tr = "ok" THEN Outcome(i, code /\ hp, "ok", "-")
                                                     ELSE Outcome(i, code /\ hp, "caught", tr)),
                                         ![p].made = @ \cup (dirs' \ dirs)]
                 /\ loc' = [loc EXCEPT ![p].idx = @ + 1]
                 /\ pc' = [pc EXCEPT ![p] = "w_loop"]
                 /\ UNCHANGED << stack, exc >>
  /\ host' = host
  /\ UNCHANGED << alive, env, inited, rank, local_rank, world_size, device, rng,
                  pg, coll, box, arg, script, ip, ilog >>

\* the final barrier returns: _worker returns
WorkerBarrierDone(p) ==
  /\ alive[p]
  /\ pc[p] = "w_bar"
  /\ CanComplete(p)
  /\ EndOfWorker(p, Leave(coll[p]))
  /\ pc' = [pc EXCEPT ![p] = RetPc(p)]
  /\ stack' = [stack EXCEPT ![p] = RetStack(p)]
  /\ hist' = [hist EXCEPT ![p] = RunEnd(@, "returned")]
  /\ host' = host
  /\ UNCHANGED << alive, env, rank, local_rank, world_size, device, rng,
                  box, arg, loc, exc, script, ip, dirs, ilog >>

\* the final barrier raises: the error leaves _worker
WorkerBarrierRaise(p) ==
  /\ alive[p]
  /\ pc[p] = "w_bar"
  /\ coll' = [coll EXCEPT ![p] = Fail(@)]
  /\ pc' = [pc EXCEPT ![p] = BasePc(p)]
  /\ stack' = [stack EXCEPT ![p] = <<>>]
  /\ exc' = [exc EXCEPT ![p] = "BarrierError"]
  /\ hist' = [hist EXCEPT ![p] = RunEnd(@, "raised")]
  /\ host' = host
  /\ UNCHANGED << alive, env, inited, rank, local_rank, world_size, device, rng,
                  pg, box, arg, loc, script, ip, dirs, ilog >>

\* spawn_if_needed looking at RANK only
ExternallyLaunched_rankOnly(e) == "RANK" \in DOMAIN e
\* ===================================================== local spawner
\* `if any(k in os.environ for k in ("RANK", "WORLD_SIZE", "LOCAL_RANK"))`
ExternallyLaunched(e) == HasSignal(e)
\* _spawn_entry assigning the loopback master address unconditionally
SpawnEnv_overwriteMaster(e, i, n) ==
  EnvSet(EnvSet(EnvSet(EnvSet(EnvSet(e, "MASTER_ADDR", "127.0.0.1"), "MASTER_PORT", "29500"),
    "LOCAL_RANK", StrOf(i)), "RANK", StrOf(i)), "WORLD_SIZE", StrOf(n))
\* the environment _spawn_entry leaves in worker i of n
SpawnEnv(e, i, n) ==
  EnvSet(EnvSet(EnvSet(
    EnvSetDefault(EnvSetDefault(e, "MASTER_ADDR", "127.0.0.1"), "MASTER_PORT", "29500"),
    "LOCAL_RANK", StrOf(i)), "RANK", StrOf(i)), "WORLD_SIZE", StrOf(n))
\* position where entry function f starts
EntryPc(f) == IF f = "run" THEN "run" ELSE "worker"
\* what one call of spawn_if_needed did: signals seen, processes created,
\* in-process invocations of the entry point and their local rank, and the
\* device count it was told (when it asked)
SpawnRec(sig, created, inv, lr, asked) ==
  [sig |-> sig, created |-> created, inv |-> inv, lr |-> lr, asked |-> asked]
Kids(p) == IF hist[p].sp = <<>> THEN {} ELSE 1..(hist[p].sp[Len(hist[p].sp)].created)

\* spawn_if_needed(entry_fn, *args, nprocs)
DoSpawn(p) ==
  /\ alive[p]
  /\ pc[p] = "spawn"
  /\ IF ExternallyLaunched(env[p])
     THEN IF "LOCAL_RANK" \in DOMAIN env[p] /\ ~IsInt(env[p]["LOCAL_RANK"])
          THEN \* int() raises ValueError
               /\ pc' = [pc EXCEPT ![p] = BasePc(p)]
               /\ stack' = [stack EXCEPT ![p] = <<>>]
               /\ exc' = [exc EXCEPT ![p] = "ValueError"]
               /\ hist' = [hist EXCEPT ![p].sp = Append(@, SpawnRec(HasSignal(env[p]), 0, 0, None, None))]
               /\ UNCHANGED << alive, env, inited, rank, local_rank, world_size, device,
                               rng, pg, coll, arg, loc, ip, ilog >>
          ELSE LET lr == IF "LOCAL_RANK" \in DOMAIN env[p]
                         THEN IntOf(env[p]["LOCAL_RANK"]) ELSE 0 IN
               \* entry_fn(local_rank, *args) in this process
               /\ pc' = [pc EXCEPT ![p] = EntryPc(loc[p].entry)]
               /\ loc' = [loc EXCEPT ![p].lrank = lr]
               /\ hist' = [hist EXCEPT ![p].sp = Append(@, SpawnRec(HasSignal(env[p]), 0, 1, Some(lr), None))]
               /\ UNCHANGED << alive, env, inited, rank, local_rank, world_size, device,
                               rng, pg, coll, arg, stack, exc, ip, ilog >>
     ELSE \E ngpu \in 0..MaxWorld :
          LET n == IF loc[p].nprocs = None
                   THEN (IF ngpu = 0 THEN 1 ELSE ngpu)
                   ELSE Val(loc[p].nprocs)
              new == IF p = Parent THEN 1..n ELSE {}
          IN
          \* mp.spawn(_spawn_entry, nprocs=n, join=True)
          /\ hist' = [q \in Pids |->
                        IF q \in new THEN FreshHist
                        ELSE IF q = p
                             THEN [hist[p] EXCEPT !.sp = Append(@, SpawnRec(HasSignal(env[p]), n, 0, None,
                                                IF loc[p].nprocs = None THEN Some(ngpu) ELSE None))]
                             ELSE hist[q]]
          /\ alive' = [q \in Pids |-> IF q \in new THEN TRUE ELSE alive[q]]
          /\ env' = [q \in Pids |-> IF q \in new THEN env[p] ELSE env[q]]
          /\ inited' = [q \in Pids |-> IF q \in new THEN FALSE ELSE inited[q]]
          /\ rank' = [q \in Pids |-> IF q \in new THEN 0 ELSE rank[q]]
          /\ local_rank' = [q \in Pids |-> IF q \in new THEN 0 ELSE local_rank[q]]
          /\ world_size' = [q \in Pids |-> IF q \in new THEN 1 ELSE world_size[q]]
          /\ device' = [q \in Pids |-> IF q \in new THEN None ELSE device[q]]
          /\ rng' = [q \in Pids |-> IF q \in new THEN None ELSE rng[q]]
          /\ pg' = [q \in Pids |-> IF q \in new THEN NoGroup ELSE pg[q]]
          /\ coll' = [q \in Pids |-> IF q \in new THEN NoColl ELSE coll[q]]
          /\ arg' = [q \in Pids |-> IF q \in new THEN arg[p] ELSE arg[q]]
          /\ loc' = [q \in Pids |->
                       IF q \in new
                       THEN [FreshLoc EXCEPT !.lrank = q - 1, !.entry = loc[p].entry,
                                             !.nprocs = Some(n)]
                       ELSE loc[q]]
          /\ exc' = [q \in Pids |-> IF q \in new THEN "none" ELSE exc[q]]
          /\ ip' = [q \in Pids |-> IF q \in new THEN 0 ELSE ip[q]]
          /\ ilog' = [q \in Pids |-> IF q \in new THEN <<>> ELSE ilog[q]]
          /\ stack' = [q \in Pids |-> IF q \in new THEN <<"exited">> ELSE stack[q]]
          /\ pc' = [q \in Pids |->
                      IF q \in new THEN "s_entry" ELSE IF q = p THEN "s_join" ELSE pc[q]]
  /\ host' = host
  /\ UNCHANGED << box, script, dirs >>

\* _spawn_entry(local_rank, entry_fn, args, nprocs) in a spawned worker
SpawnEntry(p) ==
  /\ alive[p]
  /\ pc[p] = "s_entry"
  /\ env' = [env EXCEPT ![p] = SpawnEnv(@, loc[p].lrank, Val(loc[p].nprocs))]
  /\ hist' = [hist EXCEPT ![p].entry = Some(<<loc[p].entry, loc[p].lrank>>)]
  /\ pc' = [pc EXCEPT ![p] = EntryPc(loc[p].entry)]
  /\ host' = host
  /\ UNCHANGED << alive, inited, rank, local_rank, world_size, device, rng, pg,
                  coll, box, stack, arg, loc, exc, script, ip, dirs, ilog >>

\* DPGenerator.run: `DistEnv.spawn_if_needed(DPGenerator._worker, ...)`
DoRun(p) ==
  /\ alive[p]
  /\ pc[p] = "run"
  /\ loc' = [loc EXCEPT ![p].entry = "worker", ![p].nprocs = None]
  /\ pc' = [pc EXCEPT ![p] = "spawn"]
  /\ host' = host
  /\ UNCHANGED << alive, env, inited, rank, local_rank, world_size, device, rng,
                  pg, coll, box, stack, arg, exc, script, ip, dirs, ilog, hist >>

\* the workers are gone after the join: their state is dropped
Reap(f, K, v) == [q \in Pids |-> IF q \in K THEN v ELSE f[q]]
Reaped(p) ==
  LET K == Kids(p) IN
  /\ alive' = Reap(alive, K, FALSE)
  /\ env' = Reap(env, K, EmptyEnv)
  /\ inited' = Reap(inited, K, FALSE)
  /\ rank' = Reap(rank, K, 0)
  /\ local_rank' = Reap(local_rank, K, 0)
  /\ world_size' = Reap(world_size, K, 1)
  /\ device' = Reap(device, K, None)
  /\ rng' = Reap(rng, K, None)
  /\ pg' = Reap(pg, K, NoGroup)
  /\ coll' = Reap(coll, K, NoColl)
  /\ arg' = Reap(arg, K, NoCall)
  /\ loc' = Reap(loc, K, FreshLoc)
  /\ ip' = Reap(ip, K, 0)
  /\ ilog' = Reap(ilog, K, <<>>)
  /\ hist' = Reap(hist, K, FreshHist)

\* mp.spawn joins: every worker has exited normally
SpawnJoinOk(p) ==
  /\ alive[p]
  /\ pc[p] = "s_join"
  /\ p = Parent
  /\ \A c \in Kids(p) : pc[c] = "exited" /\ exc[c] = "none"
  /\ Reaped(p)
  /\ pc' = [q \in Pids |-> IF q = p THEN RetPc(p) ELSE IF q \in Kids(p) THEN "top" ELSE pc[q]]
  /\ stack' = [q \in Pids |-> IF q = p THEN RetStack(p) ELSE IF q \in Kids(p) THEN <<>> ELSE stack[q]]
  /\ exc' = Reap(exc, Kids(p), "none")
  /\ host' = host
  /\ UNCHANGED << box, script, dirs >>

\* mp.spawn joins: a worker died with an exception; the others are
\* terminated and the failure is raised in the parent
SpawnJoinFail(p) ==
  /\ alive[p]
  /\ pc[p] = "s_join"
  /\ p = Parent
  /\ \E c \in Kids(p) : pc[c] = "exited" /\ exc[c] # "none"
  /\ Reaped(p)
  /\ pc' = [q \in Pids |-> IF q = p THEN BasePc(p) ELSE IF q \in Kids(p) THEN "top" ELSE pc[q]]
  /\ stack' = [q \in Pids |-> IF q \in Kids(p) \cup {p} THEN <<>> ELSE stack[q]]
  /\ exc' = [q \in Pids |-> IF q = p THEN "ProcessRaisedException"
                            ELSE IF q \in Kids(p) THEN "none" ELSE exc[q]]
  /\ host' = host
  /\ UNCHANGED << box, script, dirs >>

\* ============================================================ system
Next ==
  \E p \in Pids :
    \/ DriverCall(p)
    \/ DoInit(p)
    \/ InitFormed(p)
    \/ InitFormRetry(p)
    \/ InitFormFail(p)
    \/ InitSeed(p)
    \/ InitBcastDone(p)
    \/ InitBcastFail(p)
    \/ DoDestroy(p)
    \/ DestroyBarrierDone(p)
    \/ DestroyBarrierRaise(p)
    \/ DoWorker(p)
    \/ WorkerPrompts(p)
    \/ WorkerObjDone(p)
    \/ WorkerLoop(p)
    \/ WorkerGenDone(p)
    \/ WorkerPost(p)
    \/ WorkerBarrierDone(p)
    \/ WorkerBarrierRaise(p)
    \/ DoSpawn(p)
    \/ SpawnEntry(p)
    \/ DoRun(p)
    \/ SpawnJoinOk(p)
    \/ SpawnJoinFail(p)

Spec == Init /\ [][Next]_vars

\* ------------------------------------------- a generation run, scheduled fairly
\* The workers of an external launcher each call _worker once.  No
\* collective raises (group formation may still be repeated after a
\* TypeError); every process that can take a step eventually takes one.
LiveInit == Init /\ ~alive[Parent]
LiveDriverCall(p) ==
  /\ ip[p] = 0
  /\ DriverCall(p)
  /\ arg'[p].op = "worker"
LiveStep(p) ==
  \/ LiveDriverCall(p)
  \/ DoWorker(p)
  \/ DoInit(p)
  \/ InitFormed(p)
  \/ InitFormRetry(p)
  \/ InitSeed(p)
  \/ InitBcastDone(p)
  \/ WorkerPrompts(p)
  \/ WorkerObjDone(p)
  \/ WorkerLoop(p)
  \/ WorkerGenDone(p)
  \/ WorkerPost(p)
  \/ WorkerBarrierDone(p)
LiveNext == \E p \in Pids : LiveStep(p)
LiveSpec == LiveInit /\ [][LiveNext]_vars /\ \A p \in Pids : WF_vars(LiveStep(p))
TypeOK ==
  /\ \A p \in Pids : pc[p] \in {"top", "exited", "init", "i_form", "i_seed", "i_bcast",
                                "destroy", "d_bar", "worker", "w_prompts", "w_obj",
                                "w_loop", "w_gen", "w_post", "w_bar", "spawn", "run",
                                "s_entry", "s_join"}
  /\ Len(script) <= MaxCalls

\* ===================================================== properties
\* C1: DistEnv.init is idempotent.  A call of init in a process that is
\* already initialized, whatever its arguments, returns at once: rank,
\* local_rank, world_size, initialized, the applied seed and the group are
\* what they were, and the call binds no device, enters no group formation
\* and no broadcast (device, group, collective log, broadcast cell, event
\* log and environment are untouched).
C1_InitIdempotent ==
  [][\A p \in Pids :
       (alive[p] /\ alive'[p] /\ pc[p] = "init" /\ inited[p] /\ pc'[p] # "init")
         => /\ pc'[p] = Head(stack[p])
            /\ exc'[p] = exc[p]
            /\ rank'[p] = rank[p]
            /\ local_rank'[p] = local_rank[p]
            /\ world_size'[p] = world_size[p]
            /\ inited'[p]
            /\ rng'[p] = rng[p]
            /\ pg'[p] = pg[p]
            /\ device'[p] = device[p]
            /\ coll'[p] = coll[p]
            /\ ilog'[p] = ilog[p]
            /\ env'[p] = env[p]
            /\ box' = box]_vars
\* a second init call, with another backend, timeout and seed, has returned
\* in a process whose group and seed come from the first call
C1_Witness ==
  \E p \in Pids :
    /\ alive[p] /\ pc[p] = "top" /\ ip[p] = 2 /\ exc[p] = "none"
    /\ arg[p].op = "init" /\ arg[p].backend = "gloo" /\ arg[p].seed = Some(42)
    /\ inited[p]
    /\ pg[p].st = "up" /\ pg[p].backend = "nccl" /\ pg[p].timeout = DefaultTimeout
    /\ rng[p] # Some(42 + rank[p])

\* C2: with world_size N > 1 and no caller-supplied seed, once every rank of
\* a group has completed init, rank r has applied base + r, where base is
\* the one value rank 0 generated and broadcast, whatever the other ranks
\* generated locally.
C2_CommonBaseSeed ==
  \A p \in Pids :
    (/\ alive[p] /\ pg[p].st = "up" /\ world_size[p] > 1
     /\ \A r \in 0..(world_size[p] - 1) :
          \E q \in Pids : /\ SameGroup(p, q) /\ rank[q] = r
                          /\ inited[q] /\ hist[q].iseed = None)
      => \A q \in Pids :
           (SameGroup(p, q) /\ inited[q] /\ hist[q].iseed = None)
             => rng[q] = Some(box.seed + rank[q])
\* two ranks have completed a seedless init and the clocks they read
\* differed: they hold base and base + 1
C2_Witness ==
  \E p, q \in Pids :
    /\ alive[p] /\ pg[p].st = "up" /\ world_size[p] = 2
    /\ SameGroup(p, q) /\ rank[p] = 0 /\ rank[q] = 1
    /\ inited[p] /\ inited[q]
    /\ hist[p].iseed = None /\ hist[q].iseed = None
    /\ rng[p] = Some(box.seed) /\ rng[q] = Some(box.seed + 1)

\* C3: in the generation loop every rank performs model.generate for every
\* task index exactly once, in increasing order, whatever became of the
\* parse or the persistence of earlier tasks on rank 0; is_main gates only
\* decode, parse and persistence.  As a state predicate: the generate calls
\* a rank has completed are 0, 1, 2, ... without gap or repetition, only
\* rank 0 has parse/persistence outcomes, and a rank that is past its loop
\* (at the final barrier, returned, or left by an exception of the loop or
\* of the barrier) has completed generate for all K tasks.
C3_GenerateEveryIndex ==
  \A p \in Pids :
    /\ \A j \in DOMAIN hist[p].gen : hist[p].gen[j] = j - 1
    /\ hist[p].out # <<>> => IsMain(p)
    /\ (/\ alive[p] /\ loc[p].prompts # None
        /\ \/ pc[p] = "w_bar"
           \/ hist[p].end = "returned"
           \/ exc[p] \in {"IOError", "BarrierError"})
         => Len(hist[p].gen) = Len(Val(loc[p].prompts))

\* what rank q generated and built in its run number r: its current run,
\* or the one before when q has already entered the next _worker call
RunOf(q, r) ==
  IF hist[q].run = r THEN [gen |-> hist[q].gen, built |-> hist[q].built]
  ELSE IF hist[q].run = r + 1 THEN hist[q].last
  ELSE [gen |-> <<>>, built |-> None]

\* C4: with world_size > 1, a rank that is in the generation loop (or at the
\* barrier after it) holds exactly the task sequence rank 0 of its group
\* built: same length, same elements, same order, for as long as it is
\* there; only rank 0 ever builds a sequence.  Rank 0 may already be in
\* its next run when a peer is still at the barrier of this one, so the
\* sequence compared is the one rank 0 built in the peer's run.
C4_SameTasksEverywhere ==
  \A p \in Pids :
    /\ hist[p].built # None => rank[p] = 0
    /\ (alive[p] /\ world_size[p] > 1 /\ pc[p] \in {"w_loop", "w_gen", "w_post", "w_bar"})
         => \E q \in Pids : /\ SameGroup(p, q) /\ rank[q] = 0
                            /\ RunOf(q, hist[p].run).built # None
                            /\ loc[p].prompts = RunOf(q, hist[p].run).built
\* rank 1 of a group of two is in the loop with the non-empty sequence that
\* rank 0 built, and has built none itself
C4_Witness ==
  \E p, q \in Pids :
    /\ alive[p] /\ world_size[p] = 2 /\ rank[p] = 1 /\ pc[p] = "w_gen"
    /\ SameGroup(p, q) /\ rank[q] = 0
    /\ hist[p].built = None
    /\ loc[p].prompts = hist[q].built
    /\ Len(Val(loc[p].prompts)) >= 2

C6_PersistFailureCaught ==
  \A p \in Pids :
    /\ exc[p] # "IOError"
    /\ \A k \in DOMAIN hist[p].out :
         (hist[p].out[k].parsed /\ hist[p].out[k].res # "ok")
           => /\ hist[p].out[k].res = "caught"
              /\ loc[p].prompts # None => loc[p].idx > hist[p].out[k].idx

\* C7: with world_size > 1, when a rank has returned from _worker, every
\* rank of its group has completed the generate call of the last task:
\* the final barrier lets no rank return ahead of another rank's last
\* generate.
C7_NoReturnBeforeLastGenerate ==
  \A p \in Pids :
    (alive[p] /\ world_size[p] > 1 /\ hist[p].end = "returned" /\ loc[p].prompts # None)
      => \A r \in 0..(world_size[p] - 1) :
           \E q \in Pids :
             /\ SameGroup(p, q) /\ rank[q] = r
             /\ RunOf(q, hist[p].run).gen = [j \in 1..Len(Val(loc[p].prompts)) |-> j - 1]
\* rank 1 has returned from a run of at least two tasks while rank 0, its
\* last generate done, has not yet returned
C7_Witness ==
  \E p, q \in Pids :
    /\ alive[p] /\ world_size[p] = 2 /\ rank[p] = 1 /\ hist[p].end = "returned"
    /\ SameGroup(p, q) /\ rank[q] = 0 /\ hist[q].end = "running"
    /\ hist[q].run = hist[p].run
    /\ loc[p].prompts # None
    /\ Len(Val(loc[p].prompts)) >= 2
    /\ Len(hist[q].gen) = Len(Val(loc[p].prompts))

\* C8: whenever destroy has finished, initialized is false and no group is
\* left, and destroy itself raised nothing, also when its barrier raised;
\* when a group existed the barrier was attempted first, its outcome
\* (return or exception) was followed by the teardown of the group and then
\* by the reset; without a group destroy only resets.
C8_DestroyAlwaysResets ==
  \A p \in Pids :
    (alive[p] /\ arg[p].op = "destroy")
      => /\ exc[p] = "none"
         /\ pc[p] \in {"destroy", "d_bar", "top"}
         /\ pc[p] = "top"
              => /\ ~inited[p]
                 /\ pg[p].st = "none"
                 /\ LET n == Len(ilog[p])
                        tail(m) == SubSeq(ilog[p], n - m + 1, n)
                    IN \/ /\ n >= 2
                          /\ tail(2) = << <<"destroy", FALSE>>, <<"reset">> >>
                       \/ /\ n >= 5
                          /\ tail(5) \in
                               { << <<"destroy", TRUE>>, <<"barrier">>, <<o>>,
                                    <<"teardown">>, <<"reset">> >> :
                                 o \in {"barrier_ok", "barrier_raised"} }
\* destroy has returned in an initialized process of a group after its
\* barrier raised
C8_Witness ==
  \E p \in Pids :
    /\ alive[p] /\ arg[p].op = "destroy" /\ pc[p] = "top" /\ ip[p] = 2
    /\ ~inited[p] /\ pg[p].st = "none" /\ pg[p].epoch = 1
    /\ world_size[p] = 2 /\ rng[p] # None
    /\ Len(ilog[p]) >= 5
    /\ ilog[p][Len(ilog[p]) - 2] = <<"barrier_raised">>

\* C9: in an execution of init that calls group formation, identity
\* resolution comes first; when an accelerator is available the device is
\* bound to index local_rank before every group-formation call, the retried
\* one included, and never after one; group formation is called only with
\* world_size > 1 and no group in existence.
C9_BindBeforeGroupFormation ==
  \A p \in Pids : \A i \in DOMAIN ilog[p] :
    ilog[p][i][1] = "form"
      => /\ i > 1 /\ ilog[p][1][1] = "resolve"
         /\ host.cuda = Some(TRUE)
              => /\ \E j \in 2..(i - 1) :
                      ilog[p][j][1] = "bind" /\ ilog[p][j][2] = local_rank[p]
                 /\ device[p] = Some(local_rank[p])
         /\ \A j \in DOMAIN ilog[p] : ilog[p][j][1] = "bind" => j < i
         /\ ilog[p][i][3] = FALSE
         /\ ilog[p][i][4] > 1 /\ ilog[p][i][4] = world_size[p]
\* an init of local rank 1 that bound its device, called group formation
\* with the device hint and again without it
C9_Witness ==
  \E p \in Pids :
    /\ alive[p] /\ local_rank[p] = 1 /\ device[p] = Some(1)
    /\ Len(ilog[p]) >= 5
    /\ ilog[p][1][1] = "resolve"
    /\ ilog[p][2] = <<"bind", 1>>
    /\ ilog[p][3] = <<"form", TRUE, FALSE, 2>>
    /\ ilog[p][4] = <<"type_error">>
    /\ ilog[p][5] = <<"form", FALSE, FALSE, 2>>

C11_SpawnerAssignsIdentity ==
  (alive[Parent] /\ pc[Parent] = "s_join")
    => LET s == hist[Parent].sp[Len(hist[Parent].sp)]
           P == s.created
       IN
       /\ ~s.sig
       /\ IF loc[Parent].nprocs # None THEN P = Val(loc[Parent].nprocs)
          ELSE s.asked # None /\ P = (IF Val(s.asked) = 0 THEN 1 ELSE Val(s.asked))
       /\ { q \in Workers : alive[q] } = 1..P
       /\ { loc[q].lrank : q \in 1..P } = 0..(P - 1)
       /\ \A q \in 1..P :
            LET i == loc[q].lrank IN
            /\ hist[q].run <= 1
            /\ pc[q] = "s_entry" => hist[q].entry = None /\ hist[q].run = 0
            /\ pc[q] # "s_entry"
                 => /\ hist[q].entry = Some(<<loc[Parent].entry, i>>)
                    /\ env[q]["RANK"] = StrOf(i)
                    /\ env[q]["LOCAL_RANK"] = StrOf(i)
                    /\ env[q]["WORLD_SIZE"] = StrOf(P)
                    /\ env[q]["MASTER_ADDR"] = EnvGet(env[Parent], "MASTER_ADDR", "127.0.0.1")
                    /\ env[q]["MASTER_PORT"] = EnvGet(env[Parent], "MASTER_PORT", "29500")
\* two workers were spawned for two devices by a process that had a master
\* address of its own and no port; worker 1 has run its entry point with
\* that address and the default port
C11_Witness ==
  /\ alive[Parent] /\ pc[Parent] = "s_join"
  /\ env[Parent] = Env1("MASTER_ADDR", "10.0.0.1")
  /\ hist[Parent].sp[1].created = 2 /\ hist[Parent].sp[1].asked = Some(2)
  /\ \E q \in Workers :
       /\ alive[q] /\ loc[q].lrank = 1 /\ hist[q].run = 1
       /\ env[q] = [LauncherEnv(1, 2) EXCEPT !["MASTER_PORT"] = "29500"]

\* C12: with world_size = 1 a process never forms a group and never enters
\* a collective; the seed step of an init without a supplied seed sets
\* initialized, touches neither the group nor the broadcast cell, and
\* applies the low 31 bits of the clock it read, plus the rank, as they are.
C12_SingleProcessSeedIsLocal ==
  [][\A p \in Pids :
       /\ (alive'[p] /\ world_size'[p] = 1)
            => /\ pg'[p].st = "none"
               /\ coll'[p] = NoColl
               /\ pc'[p] \notin {"i_form", "i_bcast", "w_obj", "d_bar"}
       /\ (/\ alive[p] /\ alive'[p] /\ world_size[p] = 1
           /\ pc[p] = "i_seed" /\ pc'[p] # "i_seed" /\ arg[p].seed = None)
            => /\ inited'[p]
               /\ exc'[p] = "none"
               /\ pc'[p] = Head(stack[p])
               /\ box' = box
               /\ \E t \in Clock : rng'[p] = Some(t.lo + rank[p])]_vars
\* a process alone in its job is initialized by a seedless init, without a
\* group, with the low bits (6) of a clock whose bit 31 was set
C12_Witness ==
  \E p \in Pids :
    /\ alive[p] /\ inited[p] /\ world_size[p] = 1 /\ rank[p] = 0
    /\ hist[p].iseed = None
    /\ pg[p] = NoGroup /\ coll[p] = NoColl
    /\ rng[p] = Some(6)

\* C13: the identity a process holds satisfies 0 <= rank < world_size and
\* 0 <= local_rank, whichever identity signals were set and whichever were
\* absent (absent rank and local rank read as 0, absent world size as 1).
C13_IdentityInRange ==
  \A p \in Pids :
    alive[p] => /\ 0 <= rank[p] /\ rank[p] < world_size[p]
                /\ 0 <= local_rank[p]

\* C14: identity resolution raises nothing: for signals that are absent or
\* do not spell an integer, neither init nor spawn_if_needed ends with a
\* ValueError, and an initialized process holds, for each signal, its value
\* when it spells an integer and the default (0, 0, 1) otherwise.
C14_TopologyErrorsNeverRaised ==
  \A p \in Pids :
    alive[p]
      => /\ exc[p] # "ValueError"
         /\ inited[p]
              => /\ rank[p] = (IF IsInt(EnvGet(env[p], "RANK", "0"))
                               THEN IntOf(EnvGet(env[p], "RANK", "0")) ELSE 0)
                 /\ local_rank[p] = (IF IsInt(EnvGet(env[p], "LOCAL_RANK", "0"))
                                     THEN IntOf(EnvGet(env[p], "LOCAL_RANK", "0")) ELSE 0)
                 /\ world_size[p] = (IF IsInt(EnvGet(env[p], "WORLD_SIZE", "1"))
                                     THEN IntOf(EnvGet(env[p], "WORLD_SIZE", "1")) ELSE 1)

\* C15: a group-formation error is fatal: it ends init in the caller with
\* initialized false and no group, and no formation call follows it.  One
\* execution of init calls group formation at most twice; the second call
\* carries no device hint and directly follows a TypeError of the first;
\* no other failure of the first call and no failure of the second is
\* followed by another call.
C15_GroupErrorFatalOneRetry ==
  \A p \in Pids :
    LET L == ilog[p]
        forms == { i \in DOMAIN L : L[i][1] = "form" }
    IN
    /\ Cardinality(forms) <= 2
    /\ \A i, j \in forms :
         i < j => /\ j = i + 2
                  /\ L[i + 1] = <<"type_error">>
                  /\ L[j][2] = FALSE
    /\ \A i \in DOMAIN L :
         /\ L[i] = <<"type_error">> => (i - 1) \in forms /\ (i + 1) \in forms
         /\ L[i] = <<"form_failed">>
              => /\ \E k \in forms : k < i
                 /\ \A j \in DOMAIN L : j > i => L[j][1] \notin {"form", "formed", "type_error"}
                 /\ i = Len(L) => /\ ~inited[p]
                                  /\ pg[p].st = "none"
                                  /\ pc[p] \notin {"i_form", "i_seed", "i_bcast"}
                                  /\ pc[p] \in {"top", "exited"} => exc[p] = "GroupError"
\* an init called group formation with the hint, got a TypeError, called it
\* again without the hint, and that call failed: the error is in the
\* caller and the process is not initialized
C15_Witness ==
  \E p \in Pids :
    /\ alive[p] /\ ~inited[p] /\ exc[p] = "GroupError" /\ pc[p] = "top"
    /\ Len(ilog[p]) = 6
    /\ ilog[p][3] = <<"form", TRUE, FALSE, 2>>
    /\ ilog[p][4] = <<"type_error">>
    /\ ilog[p][5] = <<"form", FALSE, FALSE, 2>>
    /\ ilog[p][6] = <<"form_failed">>

\* C16 (as stated): with world_size = 1 and a supplied seed of 42, the seed
\* init applies on rank 0 is 43.
C16_AppliedSeedIs43 ==
  \A p \in Pids :
    (alive[p] /\ inited[p] /\ world_size[p] = 1 /\ rank[p] = 0 /\ hist[p].iseed = Some(42))
      => rng[p] = Some(43)
\* C16 (amended): with world_size = 1 and a supplied seed of 42, the seed
\* init applies on rank 0 is 42, the supplied seed plus the rank 0.
C16_AppliedSeedIs42 ==
  \A p \in Pids :
    (alive[p] /\ inited[p] /\ world_size[p] = 1 /\ rank[p] = 0 /\ hist[p].iseed = Some(42))
      => rng[p] = Some(42)
\* rank 0 of a job of one has completed init(seed=42)
C16_Witness ==
  \E p \in Pids :
    /\ alive[p] /\ inited[p] /\ world_size[p] = 1 /\ rank[p] = 0
    /\ arg[p].op = "init" /\ arg[p].seed = Some(42) /\ hist[p].iseed = Some(42)
    /\ pc[p] = "top" /\ exc[p] = "none"
    /\ rng[p] # None

\* C17: under fair scheduling and without failing collectives, every rank
\* that has started a run of _worker eventually returns from it, whatever
\* per-task errors (parse failure, malformed hyperparameter text, I/O error
\* while persisting) rank 0 meets.
C17_RunCompletesOnEveryRank ==
  \A p \in Pids : (hist[p].end = "running") ~> (hist[p].end = "returned")

\* C18: when a run has ended on rank 0, no task whose processing met a
\* per-task error (parse failure, malformed hyperparameter text, I/O error)
\* has an artifact directory, with or without save_llm_output; directory i
\* exists only if code and hyperparameters of task i were both extracted
\* and persisted.  The directories meant are those the run created.
C18_ErrorsLeaveGaps ==
  \A p \in Pids :
    (alive[p] /\ hist[p].end = "returned")
      => /\ \A k \in DOMAIN hist[p].out :
              hist[p].out[k].res # "ok" => hist[p].out[k].idx \notin hist[p].made
         /\ IsMain(p)
              => \A i \in hist[p].made :
                   \E k \in DOMAIN hist[p].out :
                     /\ hist[p].out[k].idx = i
                     /\ hist[p].out[k].parsed /\ hist[p].out[k].res = "ok"

\* C19: `assert prompts is not None` never fails, and every rank that is in
\* the generation loop holds a task sequence, for every identity init
\* accepts, partial sets of signals included.
C19_PromptsNeverNone ==
  \A p \in Pids :
    alive[p]
      => /\ exc[p] # "AssertionError"
         /\ pc[p] \in {"w_loop", "w_gen", "w_post"} => loc[p].prompts # None

\* C20: _worker never tears the runtime down: a process that has returned
\* from it is still initialized and, with world_size > 1, still has its
\* group; so the init of a further _worker call in that process, whatever
\* its seed argument, returns at once: no device is bound, no group formed,
\* no broadcast entered and no seed applied.
C20_WorkerLeavesRuntimeUp ==
  [][\A p \in Pids :
       /\ (alive'[p] /\ hist'[p].end = "returned")
            => /\ inited'[p]
               /\ world_size'[p] > 1 => pg'[p].st = "up"
       /\ (/\ alive[p] /\ alive'[p]
           /\ pc[p] = "init" /\ pc'[p] # "init"
           /\ hist[p].end = "running" /\ hist[p].prev = "returned")
            => /\ pc'[p] = "w_prompts"
               /\ inited'[p]
               /\ rng'[p] = rng[p]
               /\ device'[p] = device[p]
               /\ pg'[p] = pg[p]
               /\ coll'[p] = coll[p]
               /\ ilog'[p] = ilog[p]
               /\ box' = box]_vars
\* rank 1 of a group of two is in its second run of _worker, called with
\* seed 42 after a seedless first run: past init, with the group and the
\* seed of the first run
C20_Witness ==
  \E p \in Pids :
    /\ alive[p] /\ world_size[p] = 2 /\ rank[p] = 1
    /\ hist[p].run = 2 /\ hist[p].prev = "returned" /\ hist[p].end = "returned"
    /\ arg[p].op = "worker" /\ arg[p].seed = Some(42) /\ hist[p].iseed = None
    /\ inited[p] /\ pg[p].st = "up" /\ pg[p].epoch = 1
    /\ rng[p] = Some(box.seed + 1) /\ rng[p] # Some(43)

====
